---- MODULE Spec2Model ----
\* Verification model of gh-pr-release: detection of merged pull requests,
\* the release pull request locator, the checklist description renderer and
\* the create-or-update run of the command line entry point.
EXTENDS FiniteSets, Integers, Sequences, TLC

\* ------------------------------------------------------------------ bounds
MaxPRs == 2         \* feature pull requests opened in one behaviour
MaxMerges == 2      \* merge commits listed by git log base..head
MaxListLen == 2     \* length of the pr_list handed to the renderer
MaxBodyLines == 2   \* lines of a hand-written prior body

\* ------------------------------------------------------------------ text
\* Text is a sequence of one-character strings; Optional[str] is a sequence
\* of length 0 (None) or 1.
None == <<>>
Some(v) == <<v>>

Digits == <<"0", "1", "2", "3", "4", "5", "6", "7", "8", "9">>

IsDigit(c) == \E i \in 1..10 : Digits[i] = c

DigitVal(c) == (CHOOSE i \in 1..10 : Digits[i] = c) - 1

\* \s of the regular expressions
IsSpace(c) == c \in {" ", "\t", "\n"}

RECURSIVE DecStr(_)
\* str(int) of the f-string: decimal digits, no padding
DecStr(n) == IF n < 10 THEN <<Digits[n + 1]>>
             ELSE DecStr(n \div 10) \o <<Digits[(n % 10) + 1]>>

RECURSIVE ParseInt(_)
\* int(m.group("number"))
ParseInt(ds) == IF ds = <<>> THEN 0
                ELSE 10 * ParseInt(SubSeq(ds, 1, Len(ds) - 1)) + DigitVal(ds[Len(ds)])

RECURSIVE SkipWhile(_, _, _)
\* first index >= i of s whose character is not in the class (Len(s)+1 at the end)
SkipWhile(s, i, isDigitClass) ==
    IF i > Len(s) THEN i
    ELSE IF (IF isDigitClass THEN IsDigit(s[i]) ELSE IsSpace(s[i]))
         THEN SkipWhile(s, i + 1, isDigitClass)
         ELSE i

HasAt(s, i, lit) == /\ i + Len(lit) - 1 <= Len(s)
                    /\ SubSeq(s, i, i + Len(lit) - 1) = lit

NoMatch == [ok |-> FALSE, number |-> 0, end |-> 0]

\* one bullet, whitespace, the checked marker, whitespace, '#', greedy digits
RE_TASK_LIST(s, i) ==
    IF ~(i <= Len(s) /\ s[i] \in {"-", "*"}) THEN NoMatch
    ELSE LET a == SkipWhile(s, i + 1, FALSE) IN
         IF a = i + 1 \/ ~HasAt(s, a, <<"[", "x", "]">>) THEN NoMatch
         ELSE LET b == SkipWhile(s, a + 3, FALSE) IN
              IF b = a + 3 \/ ~HasAt(s, b, <<"#">>) THEN NoMatch
              ELSE LET e == SkipWhile(s, b + 1, TRUE) IN
                   IF e = b + 1 THEN NoMatch
                   ELSE [ok |-> TRUE, number |-> ParseInt(SubSeq(s, b + 1, e - 1)), end |-> e]

RECURSIVE finditer(_, _)
\* re.finditer over the whole text: leftmost matches, resumed after each match
finditer(s, i) ==
    IF i > Len(s) THEN {}
    ELSE LET m == RE_TASK_LIST(s, i) IN
         IF m.ok THEN {m.number} \cup finditer(s, m.end)
         ELSE finditer(s, i + 1)

\* the marker written without looking at the checked set
MarkerBlank(pr, checked) == " "

Marker(pr, checked) == IF pr.number \in checked THEN "x" ELSE " "

DescriptionLine(pr, checked) ==
    <<"-", " ", "[", Marker(pr, checked), "]", " ", "#">> \o DecStr(pr.number)
      \o <<" ">> \o pr.title \o <<" ", "@">> \o pr.login \o <<"\n">>

RECURSIVE Concat(_)
Concat(ss) == IF ss = <<>> THEN <<>> ELSE Head(ss) \o Concat(Tail(ss))

CheckedNumbers(old_body) ==
    IF old_body # None /\ old_body[1] # <<>> THEN finditer(old_body[1], 1) ELSE {}

pull_request_description(prs, old_body) ==
    LET checked == CheckedNumbers(old_body) IN
    Concat([k \in 1..Len(prs) |-> DescriptionLine(prs[k], checked)])

\* ------------------------------------------------------------------ state
VARIABLES
    pulls,       \* hosting service: pull request number -> pull request
    log,         \* git log --merges --pretty=format:%P origin/base..origin/head
    baseAnc,     \* commits that are ancestors of origin/base
    pc,          \* position of the current run of main
    hashes,      \* merged_pull_requests: the set built from merged_commit_hashes
    pr_list,     \* main: the list returned by merged_pull_requests
    release_pr,  \* main: the result of release_pull_request (Optional)
    calls,       \* create/edit calls the current run made on the hosting service
    locates,     \* release_pull_request calls of the current run
    rS,          \* renderer input: pr_list
    rB,          \* renderer input: old_body (Optional)
    rOut         \* renderer outputs so far

vars == <<pulls, log, baseAnc, pc, hashes, pr_list, release_pr, calls, locates,
          rS, rB, rOut>>

sysVars == <<pulls, log, baseAnc, pc, hashes, pr_list, release_pr, calls, locates>>

renderVars == <<rS, rB, rOut>>

\* ------------------------------------------------------------------ repository
HeadBranch == "develop"    \* Context.head
BaseBranch == "master"     \* Context.base
FeatureBranch == "feature"

FirstNumber == 9           \* number the hosting service gives the first pull request
Mainline == 0              \* first parent of every merge, tip of the head branch
OtherCommit == 1           \* tip of a branch that has no pull request
HeadCommit(n) == n         \* the commit refs/pull/<n>/head points to

\* str comparison of the decimal digits; '/' after the number sorts before a digit
RECURSIVE StrLess(_, _)
StrLess(a, b) ==
    IF a = <<>> THEN b # <<>>
    ELSE IF b = <<>> THEN FALSE
    ELSE IF Head(a) # Head(b) THEN DigitVal(Head(a)) < DigitVal(Head(b))
    ELSE StrLess(Tail(a), Tail(b))

RefLess(n, m) == StrLess(DecStr(n), DecStr(m))

RECURSIVE SortedByRef(_)
\* the pull request numbers of S in refname order
SortedByRef(S) ==
    IF S = {} THEN <<>>
    ELSE LET x == CHOOSE y \in S : \A z \in S \ {y} : RefLess(y, z)
         IN <<x>> \o SortedByRef(S \ {x})

RECURSIVE RefLines(_, _)
RefLines(ps, order) ==
    IF order = <<>> THEN <<>>
    ELSE <<[sha1 |-> ps[Head(order)].sha, number |-> Head(order)]>> \o RefLines(ps, Tail(order))

\* git ls-remote origin refs/pull/*/head: one "<sha1> <ref>" line per pull
\* request, in refname order
ls_remote(ps) == RefLines(ps, SortedByRef(DOMAIN ps))

\* git merge-base <sha1> origin/base
merge_base(sha1, anc) == IF sha1 \in anc THEN sha1 ELSE Mainline

RECURSIVE FeatureParents(_)
\* main, feature = line.split() for every line; ValueError unless two fields
FeatureParents(lines) ==
    IF lines = <<>> THEN [error |-> FALSE, yielded |-> <<>>]
    ELSE IF Len(Head(lines)) # 2 THEN [error |-> TRUE, yielded |-> <<>>]
    ELSE LET r == FeatureParents(Tail(lines)) IN
         [error |-> r.error, yielded |-> <<Head(lines)[2]>> \o r.yielded]

merged_commit_hashes(lines) == FeatureParents(lines)

merged_pull_request_numbers(refs, hs, anc) ==
    LET Keep(line) == /\ line.sha1 \in hs
                      /\ line.sha1 # merge_base(line.sha1, anc)
        kept == SelectSeq(refs, Keep)
    IN [k \in 1..Len(kept) |-> kept[k].number]

HashSet(yielded) == {yielded[k] : k \in 1..Len(yielded)}

\* the list without the pr.merged test
merged_pull_requests_unconfirmed(ps, lines, anc) ==
    LET hs == merged_commit_hashes(lines) IN
    IF hs.error THEN [error |-> TRUE, hashes |-> {}, list |-> <<>>]
    ELSE LET numbers == merged_pull_request_numbers(ls_remote(ps), HashSet(hs.yielded), anc)
         IN [error |-> FALSE, hashes |-> HashSet(hs.yielded),
             list |-> [k \in 1..Len(numbers) |-> ps[numbers[k]]]]

\* the refs matched once per yielded hash instead of against the set of them
merged_pull_requests_per_hash(ps, lines, anc) ==
    LET hs == merged_commit_hashes(lines) IN
    IF hs.error THEN [error |-> TRUE, hashes |-> {}, list |-> <<>>]
    ELSE LET numbers == Concat([j \in 1..Len(hs.yielded) |->
                            merged_pull_request_numbers(ls_remote(ps), {hs.yielded[j]}, anc)])
             got == [k \in 1..Len(numbers) |-> ps[numbers[k]]]
             IsMerged(pr) == pr.merged
         IN [error |-> FALSE, hashes |-> HashSet(hs.yielded), list |-> SelectSeq(got, IsMerged)]

merged_pull_requests(ps, lines, anc) ==
    LET hs == merged_commit_hashes(lines) IN
    IF hs.error THEN [error |-> TRUE, hashes |-> {}, list |-> <<>>]
    ELSE LET numbers == merged_pull_request_numbers(ls_remote(ps), HashSet(hs.yielded), anc)
             got == [k \in 1..Len(numbers) |-> ps[numbers[k]]]
             IsMerged(pr) == pr.merged
         IN [error |-> FALSE, hashes |-> HashSet(hs.yielded), list |-> SelectSeq(got, IsMerged)]

RECURSIVE NewestFirst(_)
\* sort="created", direction="desc": numbers are given in creation order
NewestFirst(S) ==
    IF S = {} THEN <<>>
    ELSE LET x == CHOOSE y \in S : \A z \in S : z <= y
         IN <<x>> \o NewestFirst(S \ {x})

\* get_pulls(state="open", sort="created", direction="desc", head=..., base=...)
get_pulls(ps) ==
    NewestFirst({n \in DOMAIN ps : /\ ps[n].state = "open"
                                  /\ ps[n].head = HeadBranch
                                  /\ ps[n].base = BaseBranch})

\* the newest match taken whenever there is any
release_pull_request_first(ps) ==
    LET result == get_pulls(ps) IN
    IF Len(result) >= 1 THEN Some(ps[result[1]]) ELSE None

\* the count compared with the wrong number
release_pull_request_more(ps) ==
    LET result == get_pulls(ps) IN
    IF Len(result) > 1 THEN Some(ps[result[1]]) ELSE None

release_pull_request(ps) ==
    LET result == get_pulls(ps) IN
    IF Len(result) = 1 THEN Some(ps[result[1]]) ELSE None

ReleaseTitle(now) == <<"R">> \o DecStr(now)

create_release_pull_request(prs, now) ==
    [op |-> "create", number |-> 0, title |-> ReleaseTitle(now),
     body |-> pull_request_description(prs, None),
     base |-> BaseBranch, head |-> HeadBranch]

\* the edit rendered without the body of the release pull request
update_release_pull_request_fresh(rel, prs, now) ==
    [op |-> "edit", number |-> rel.number, title |-> ReleaseTitle(now),
     body |-> pull_request_description(prs, None),
     base |-> "", head |-> ""]

update_release_pull_request(rel, prs, now) ==
    [op |-> "edit", number |-> rel.number, title |-> ReleaseTitle(now),
     body |-> pull_request_description(prs, Some(rel.body)),
     base |-> "", head |-> ""]

\* ------------------------------------------------------------------ renderer runs
TitleFix == <<"F", "i", "x">>
TitleQuoted == <<"-", " ", "[", "x", "]", " ", "#", "1">>
LoginA == <<"a">>

RenderNumbers == {1, 2, 12}
RenderTitles == {TitleFix, TitleQuoted}

RenderPR == [number : RenderNumbers, title : RenderTitles, login : {LoginA}]

SeqsUpTo(S, n) == UNION {[1..k -> S] : k \in 0..n}

DistinctNumbers(prs) == \A i, j \in 1..Len(prs) : i # j => prs[i].number # prs[j].number

PlainPR(n) == [number |-> n, title |-> TitleFix, login |-> LoginA]

ChecklistLine(bullet, mark, n) ==
    <<bullet, " ", "[", mark, "]", " ", "#">> \o DecStr(n) \o <<" ">> \o TitleFix \o <<"\n">>

\* lines a prior body is written from: ticked items, an unticked item, a
\* star-bulleted ticked item and free prose
BodyLines ==
    {ChecklistLine("-", "x", n) : n \in RenderNumbers}
      \cup {ChecklistLine("-", " ", 2), ChecklistLine("*", "x", 12), <<"N", "o", "t", "e", "\n">>}

Bodies == {Concat(ls) : ls \in SeqsUpTo(BodyLines, MaxBodyLines)}

IdleSys == /\ pulls = <<>> /\ log = <<>> /\ baseAnc = {}
           /\ pc = "idle" /\ hashes = {} /\ pr_list = <<>> /\ release_pr = None
           /\ calls = <<>> /\ locates = 0

IdleRender == rS = <<>> /\ rB = None /\ rOut = <<>>

InitRender ==
    /\ IdleSys
    /\ rS \in {prs \in SeqsUpTo(RenderPR, MaxListLen) : DistinctNumbers(prs)}
    /\ rB \in {None} \cup {Some(b) : b \in Bodies}
    /\ rOut = <<>>

\* first generation: pull_request_description(S, B)
Render ==
    /\ rOut = <<>>
    /\ rOut' = <<pull_request_description(rS, rB)>>
    /\ UNCHANGED <<sysVars, rS, rB>>

\* regeneration from the previous output: pull_request_description(S, B')
Regenerate ==
    /\ Len(rOut) = 1
    /\ rOut' = Append(rOut, pull_request_description(rS, Some(rOut[1])))
    /\ UNCHANGED <<sysVars, rS, rB>>

NextRender == Render \/ Regenerate

SpecRender == InitRender /\ [][NextRender]_vars

\* ------------------------------------------------------------------ system
TitleAdd == <<"A", "d", "d">>
LoginB == <<"b">>

\* title and author of the n-th pull request of the repository
MetaOf(n) == IF n % 2 = 1 THEN [title |-> TitleFix, login |-> LoginA]
             ELSE [title |-> TitleAdd, login |-> LoginB]

\* the command is a short batch run: people act between two runs of it
BetweenRuns == pc = "start"

FeatureNumbers == {n \in DOMAIN pulls : pulls[n].base = HeadBranch}

OpenReleaseNumbers == {n \in DOMAIN pulls : /\ pulls[n].state = "open"
                                           /\ pulls[n].head = HeadBranch
                                           /\ pulls[n].base = BaseBranch}

NextNumber == FirstNumber + Cardinality(DOMAIN pulls)

\* hosting service time, as far as the order of merges needs it: it advances
\* with every pull request merged
Now == 1 + Cardinality({n \in DOMAIN pulls : pulls[n].merged})

Init ==
    /\ pulls = <<>>
    /\ log = <<>>
    /\ baseAnc = {}
    /\ pc = "start"
    /\ hashes = {}
    /\ pr_list = <<>>
    /\ release_pr = None
    /\ calls = <<>>
    /\ locates = 0
    /\ IdleRender

runVars == <<pc, hashes, pr_list, release_pr, calls, locates>>

\* a contributor opens a pull request against the head branch
OpenPR ==
    /\ BetweenRuns
    /\ Cardinality(FeatureNumbers) < MaxPRs
    /\ pulls' = pulls @@ (NextNumber :>
                    [number |-> NextNumber, state |-> "open", merged |-> FALSE,
                     created_at |-> NextNumber, merged_at |-> 0,
                     title |-> MetaOf(NextNumber).title, login |-> MetaOf(NextNumber).login,
                     sha |-> HeadCommit(NextNumber),
                     head |-> FeatureBranch, base |-> HeadBranch, body |-> <<>>])
    /\ UNCHANGED <<log, baseAnc, runVars, renderVars>>

\* the hosting service merges a feature pull request into the head branch
MergePR(n) ==
    /\ BetweenRuns
    /\ n \in FeatureNumbers
    /\ pulls[n].state = "open"
    /\ Len(log) < MaxMerges
    /\ pulls' = [pulls EXCEPT ![n].state = "closed", ![n].merged = TRUE,
                              ![n].merged_at = Now]
    /\ log' = <<<<Mainline, pulls[n].sha>>>> \o log
    /\ UNCHANGED <<baseAnc, runVars, renderVars>>

\* a feature pull request is closed without being merged
ClosePR(n) ==
    /\ BetweenRuns
    /\ n \in FeatureNumbers
    /\ pulls[n].state = "open"
    /\ pulls' = [pulls EXCEPT ![n].state = "closed"]
    /\ UNCHANGED <<log, baseAnc, runVars, renderVars>>

\* a merge made with git is pushed to the head branch: the branch of a closed
\* pull request merged by hand, alone or together with another branch (an
\* octopus, three parents)
PushMerge(parents) ==
    /\ BetweenRuns
    /\ Len(log) < MaxMerges
    /\ log' = <<parents>> \o log
    /\ UNCHANGED <<pulls, baseAnc, runVars, renderVars>>

ClosedFeatureNumbers == {n \in FeatureNumbers : pulls[n].state = "closed"}

MergeParents == {<<Mainline, HeadCommit(n)>> : n \in ClosedFeatureNumbers}
                  \cup {<<Mainline, HeadCommit(n), OtherCommit>> : n \in ClosedFeatureNumbers}

LogCommits == UNION {{log[k][j] : j \in 2..Len(log[k])} : k \in 1..Len(log)}

\* the open release pull request is merged: base catches up with head
Release(n) ==
    /\ BetweenRuns
    /\ n \in OpenReleaseNumbers
    /\ pulls' = [pulls EXCEPT ![n].state = "closed", ![n].merged = TRUE,
                              ![n].merged_at = Now]
    /\ baseAnc' = baseAnc \cup LogCommits
    /\ log' = <<>>
    /\ UNCHANGED <<runVars, renderVars>>

\* start of an unticked checklist line at index i of the text
UntickedAt(text, i) ==
    /\ text[i] = "-"
    /\ IF i = 1 THEN TRUE ELSE text[i - 1] = "\n"
    /\ HasAt(text, i, <<"-", " ", "[", " ", "]", " ", "#">>)

UntickedPositions(text) == {i \in 1..Len(text) : UntickedAt(text, i)}

\* a user ticks a checkbox of the open release pull request
Tick(n, i) ==
    /\ BetweenRuns
    /\ n \in OpenReleaseNumbers
    /\ i \in UntickedPositions(pulls[n].body)
    /\ pulls' = [pulls EXCEPT ![n].body = [pulls[n].body EXCEPT ![i + 3] = "x"]]
    /\ UNCHANGED <<log, baseAnc, runVars, renderVars>>

\* main without the early return
AfterDetectAlways(list) == "detected"

\* main: if not pr_list: log and return
AfterDetect(list) == IF list = <<>> THEN "stopped" ELSE "detected"

\* main: pr_list = merged_pull_requests(ctx)
DetectMerged ==
    /\ pc = "start"
    /\ \E r \in {merged_pull_requests(pulls, log, baseAnc)} :
         /\ hashes' = r.hashes
         /\ pr_list' = r.list
         /\ pc' = IF r.error THEN "value_error" ELSE AfterDetect(r.list)
    /\ UNCHANGED <<pulls, log, baseAnc, release_pr, calls, locates, renderVars>>

\* main: release_pr = release_pull_request(ctx)
LocateExisting ==
    /\ pc = "detected"
    /\ release_pr' = release_pull_request(pulls)
    /\ locates' = locates + 1
    /\ pc' = "located"
    /\ UNCHANGED <<pulls, log, baseAnc, hashes, pr_list, calls, renderVars>>

\* main: if release_pr is None
WriteChoice(rel) == IF rel = None THEN "create" ELSE "update"

\* main: create_release_pull_request; the hosting service refuses a second
\* open pull request for the same head and base
Create ==
    /\ pc = "located"
    /\ WriteChoice(release_pr) = "create"
    /\ \E call \in {create_release_pull_request(pr_list, Now)} :
         /\ calls' = Append(calls, call)
         /\ IF OpenReleaseNumbers # {}
            THEN /\ pc' = "github_error"
                 /\ UNCHANGED pulls
            ELSE /\ pc' = "done"
                 /\ pulls' = pulls @@ (NextNumber :>
                       [number |-> NextNumber, state |-> "open", merged |-> FALSE,
                        created_at |-> NextNumber, merged_at |-> 0,
                        title |-> call.title, login |-> LoginA, sha |-> Mainline,
                        head |-> call.head, base |-> call.base, body |-> call.body])
    /\ UNCHANGED <<log, baseAnc, hashes, pr_list, release_pr, locates, renderVars>>

\* main: update_release_pull_request
Update ==
    /\ pc = "located"
    /\ WriteChoice(release_pr) = "update"
    /\ \E call \in {update_release_pull_request(release_pr[1], pr_list, Now)} :
         /\ calls' = Append(calls, call)
         /\ pulls' = [pulls EXCEPT ![call.number].title = call.title,
                                   ![call.number].body = call.body]
    /\ pc' = "done"
    /\ UNCHANGED <<log, baseAnc, hashes, pr_list, release_pr, locates, renderVars>>

\* the command is invoked again
NewRun ==
    /\ pc \in {"stopped", "done", "value_error", "github_error"}
    /\ pc' = "start"
    /\ hashes' = {}
    /\ pr_list' = <<>>
    /\ release_pr' = None
    /\ calls' = <<>>
    /\ locates' = 0
    /\ UNCHANGED <<pulls, log, baseAnc, renderVars>>

Next ==
    \/ OpenPR
    \/ \E n \in FeatureNumbers : MergePR(n)
    \/ \E n \in FeatureNumbers : ClosePR(n)
    \/ \E parents \in MergeParents : PushMerge(parents)
    \/ \E n \in OpenReleaseNumbers : Release(n)
    \/ \E n \in OpenReleaseNumbers : \E i \in UntickedPositions(pulls[n].body) : Tick(n, i)
    \/ DetectMerged
    \/ LocateExisting
    \/ Create
    \/ Update
    \/ NewRun

Spec == Init /\ [][Next]_vars

\* ------------------------------------------------------------------ locator runs
\* what a pull request of the hosting service may look like when the command
\* starts: open or closed, merged or not, between any two branches
PullShapes ==
    {sh \in [state : {"open", "closed"}, merged : BOOLEAN,
             head : {HeadBranch, FeatureBranch}, base : {BaseBranch, HeadBranch}] :
        /\ sh.head # sh.base
        /\ sh.merged => sh.state = "closed"}

ShapedPull(n, sh) ==
    [number |-> n, state |-> sh.state, merged |-> sh.merged,
     created_at |-> n, merged_at |-> IF sh.merged THEN n - FirstNumber + 1 ELSE 0,
     title |-> TitleFix, login |-> LoginA,
     sha |-> IF sh.head = HeadBranch THEN Mainline ELSE HeadCommit(FirstNumber),
     head |-> sh.head, base |-> sh.base,
     body |-> IF sh.head = HeadBranch THEN DescriptionLine(PlainPR(1), {}) ELSE <<>>]

MaxPulls == 3      \* pull requests on the hosting service when the locator runs

InitLocate ==
    /\ \E k \in 1..MaxPulls :
         \E shapes \in [FirstNumber..(FirstNumber + k - 1) -> PullShapes] :
            pulls = [n \in DOMAIN shapes |-> ShapedPull(n, shapes[n])]
    /\ log = <<<<Mainline, HeadCommit(FirstNumber)>>>>
    /\ baseAnc = {}
    /\ hashes = {HeadCommit(FirstNumber)}
    /\ pr_list = merged_pull_requests(pulls, log, baseAnc).list
    /\ pr_list # <<>>
    /\ pc = "detected"
    /\ release_pr = None
    /\ calls = <<>>
    /\ locates = 0
    /\ IdleRender

SpecLocate == InitLocate /\ [][LocateExisting]_vars

\* ------------------------------------------------------------------ reading a body
RECURSIVE SplitLines(_)
SplitLines(s) ==
    IF s = <<>> THEN <<>>
    ELSE LET k == CHOOSE j \in 1..(Len(s) + 1) :
                     /\ (j = Len(s) + 1 \/ s[j] = "\n")
                     /\ \A i \in 1..(j - 1) : s[i] # "\n"
         IN <<SubSeq(s, 1, k - 1)>> \o SplitLines(SubSeq(s, k + 1, Len(s)))

\* the line is "<bullet> [<mark>] #<n>" followed by a non-digit or the end of line
IsLineFor(line, bullet, mark, n) ==
    LET pre == <<bullet, " ", "[", mark, "]", " ", "#">> \o DecStr(n) IN
    /\ HasAt(line, 1, pre)
    /\ (Len(line) = Len(pre) \/ ~IsDigit(line[Len(pre) + 1]))

\* lines is SplitLines of a text; a ticked item for #n, with either bullet
AnyCheckedLine(lines, n) ==
    \E k \in 1..Len(lines) : IsLineFor(lines[k], "-", "x", n) \/ IsLineFor(lines[k], "*", "x", n)

\* a line "- [x] #<n> ..." as the renderer writes it
AnyRenderedCheckedLine(lines, n) == \E k \in 1..Len(lines) : IsLineFor(lines[k], "-", "x", n)

AnyLineFor(lines, n) ==
    \E k \in 1..Len(lines) : \E b \in {"-", "*"}, m \in {"x", " "} : IsLineFor(lines[k], b, m, n)

HasCheckedLine(text, n) == AnyRenderedCheckedLine(SplitLines(text), n)

NumbersOf(prs) == {prs[k].number : k \in 1..Len(prs)}

ProbeNumbers == 0..13

\* C1: regenerating the description from its own output changes nothing.
IdempotentRender == Len(rOut) = 2 => rOut[2] = rOut[1]

\* C2: a checked line for #n in the prior body stays a checked line when n is in
\* the merged set, and no line for #n is written when n is not in the merged set.
CheckedStatePreserved ==
    Len(rOut) >= 1 =>
        LET prior == IF rB = None THEN <<>> ELSE SplitLines(rB[1])
            out == SplitLines(rOut[1])
            listed == NumbersOf(rS)
        IN \A n \in ProbeNumbers :
              /\ (AnyCheckedLine(prior, n) /\ n \in listed) => AnyRenderedCheckedLine(out, n)
              /\ n \notin listed => ~AnyLineFor(out, n)

\* a rendered body that kept #12 checked and dropped the checked #1
CheckedStatePreservedWitness ==
    /\ Len(rOut) >= 1
    /\ rB # None
    /\ AnyCheckedLine(SplitLines(rB[1]), 12) /\ 12 \in NumbersOf(rS)
    /\ HasCheckedLine(rOut[1], 12)
    /\ AnyCheckedLine(SplitLines(rB[1]), 1) /\ 1 \notin NumbersOf(rS)
    /\ 2 \in NumbersOf(rS) /\ ~HasCheckedLine(rOut[1], 2)

\* ------------------------------------------------------------------ properties of a run
AfterDetection == pc \in {"detected", "located", "done", "github_error"}

AscendingByCreation(prs) ==
    \A i, j \in 1..Len(prs) : i < j => prs[i].created_at <= prs[j].created_at

AscendingByMerge(prs) ==
    \A i, j \in 1..Len(prs) : i < j => prs[i].merged_at <= prs[j].merged_at

\* C3: the merged set handed to create/update is in ascending order of
\* creation time, or of merge time, in whatever order the refs were listed.
MergedSetChronological ==
    (pc \in {"done", "github_error"} /\ calls # <<>>) =>
        AscendingByCreation(pr_list) \/ AscendingByMerge(pr_list)

\* C4: a run whose merged set is empty (always so when no merge commit lies
\* between base and head) stops without a locator call and without a write.
EmptyRunStops ==
    /\ [][(pc = "start" /\ pc' # "start" /\ pc' # "value_error"
             /\ (pr_list' = <<>> \/ log = <<>>))
            => (pc' = "stopped" /\ pr_list' = <<>>)]_vars
    /\ [](pc = "stopped" => (locates = 0 /\ calls = <<>>))
    /\ [][pc = "stopped" => (pulls' = pulls /\ calls' \in {calls, <<>>} /\ locates' = 0)]_vars

EmptyRunStopsWitness ==
    /\ pc = "stopped"
    /\ log = <<>>
    /\ \E n \in DOMAIN pulls : pulls[n].state = "open"

\* C5: a run with a non-empty merged set makes exactly one write: a create
\* from head to base with the description of the set when the locator found
\* nothing, else an edit of the located pull request with the description
\* regenerated from its body.
ExactlyOneWrite ==
    /\ Len(calls) <= 1
    /\ (AfterDetection /\ pc \notin {"done", "github_error"}) => calls = <<>>
    /\ pc \in {"done", "github_error"} =>
         /\ pr_list # <<>>
         /\ Len(calls) = 1
         /\ locates = 1
         /\ IF release_pr = None
            THEN /\ calls[1].op = "create"
                 /\ calls[1].head = HeadBranch /\ calls[1].base = BaseBranch
                 /\ calls[1].body = pull_request_description(pr_list, None)
                 /\ pc = "done" =>
                      \E n \in OpenReleaseNumbers : pulls[n].body = calls[1].body
            ELSE /\ calls[1].op = "edit"
                 /\ calls[1].number = release_pr[1].number
                 /\ calls[1].body = pull_request_description(pr_list, Some(release_pr[1].body))
                 /\ pulls[release_pr[1].number].body = calls[1].body

ExactlyOneWriteWitness ==
    /\ pc = "done"
    /\ release_pr # None
    /\ Len(pr_list) = 2
    /\ \E n \in NumbersOf(pr_list) : HasCheckedLine(calls[1].body, n)
    /\ \E n \in NumbersOf(pr_list) : ~HasCheckedLine(calls[1].body, n)

LastCall == calls'[Len(calls')]

\* C6: over any sequence of runs a create happens only while no release pull
\* request is open, a run that finds one open edits that one, and at most one
\* is ever open.
CreateOrUpdateFromFreshState ==
    /\ [](Cardinality(OpenReleaseNumbers) <= 1)
    /\ [][(Len(calls') > Len(calls) /\ LastCall.op = "create")
            => OpenReleaseNumbers = {}]_vars
    /\ [][(pc = "located" /\ pc' # "located" /\ OpenReleaseNumbers # {})
            => (/\ Len(calls') = Len(calls) + 1
                /\ LastCall.op = "edit"
                /\ LastCall.number \in OpenReleaseNumbers
                /\ DOMAIN pulls' = DOMAIN pulls)]_vars

CreateOrUpdateFromFreshStateWitness ==
    /\ pc = "done"
    /\ calls[1].op = "edit"
    /\ Cardinality({n \in DOMAIN pulls : pulls[n].head = HeadBranch}) = 1
    /\ Len(pr_list) = 2

MatchingOpen == {n \in DOMAIN pulls : /\ pulls[n].state = "open"
                                     /\ pulls[n].head = HeadBranch
                                     /\ pulls[n].base = BaseBranch}

\* C7: the locator returns a pull request exactly when one open pull request
\* has the head and base of the release, and then that one; none otherwise.
LocatorSingleMatch ==
    pc = "located" =>
        /\ (release_pr # None) <=> (Cardinality(MatchingOpen) = 1)
        /\ release_pr # None => (/\ release_pr[1].number \in MatchingOpen
                                 /\ release_pr[1] = pulls[release_pr[1].number])

LocatorSingleMatchWitness ==
    /\ pc = "located"
    /\ Cardinality(MatchingOpen) = 2
    /\ release_pr = None

SecondParents == {log[k][2] : k \in 1..Len(log)}

\* C8: every pull request of the returned list is merged on the hosting
\* service, its head commit is the second parent of a merge commit between
\* base and head, and that commit is not an ancestor of base.
ListedAreMerged ==
    AfterDetection =>
        \A k \in 1..Len(pr_list) :
            LET n == pr_list[k].number IN
            /\ n \in DOMAIN pulls
            /\ pulls[n].merged
            /\ \E j \in 1..Len(log) : Len(log[j]) >= 2 /\ log[j][2] = pulls[n].sha
            /\ pulls[n].sha \notin baseAnc

\* a pull request of the earlier release, merged again, is left out while a
\* new one is listed
ListedAreMergedWitness ==
    /\ pc = "detected"
    /\ Len(pr_list) = 1
    /\ \E n \in DOMAIN pulls :
          /\ n \notin NumbersOf(pr_list)
          /\ pulls[n].merged
          /\ pulls[n].sha \in hashes
          /\ pulls[n].sha \in baseAnc

\* C9: the returned list has no pull request number twice, also when a head
\* commit is the second parent of two merge commits.
NoDuplicateNumbers == AfterDetection => DistinctNumbers(pr_list)

NoDuplicateNumbersWitness ==
    /\ pc = "detected"
    /\ \E k \in 1..Len(pr_list) :
          Cardinality({j \in 1..Len(log) : log[j][2] = pr_list[k].sha}) = 2

\* C10: whatever merge commits lie between base and head, with two parents or
\* more, the hash collection completes and is the set of their second parents.
HashesAreSecondParents ==
    pc # "start" => (pc # "value_error" /\ hashes = SecondParents)

====
